---- MODULE Spec2Model ----
(***************************************************************************)
(* A model of bril-txt (src/bril-txt/briltxt.py): the import resolver      *)
(* unroll_imports, the duplicate check of parse_bril, the grammar and its  *)
(* transformer, and the pretty-printer.                                    *)
(***************************************************************************)
EXTENDS Integers, Sequences, FiniteSets, TLC

(***************************************************************************)
(* Bounds and input alphabets.                                             *)
(***************************************************************************)
\* The longest function list of one unit (the root program or one module).
MaxFuncs == 2

\* The longest instruction list of the function of a one-function text.
MaxInstrs == 4

\* Module names that import statements may mention ("<name>.bril").
Modules == {"A", "B"}

\* Function names.
Names == {"f", "g"}

SeqsUpTo(S, n) == UNION {[1..k -> S] : k \in 0..n}

Range(s) == {s[i] : i \in 1..Len(s)}

(***************************************************************************)
(* Programs as the resolver sees them (decoded JSON).  A function is its   *)
(* name and its definition; two definitions written at different places    *)
(* are different values even when they carry the same name, so `def` is    *)
(* the place the definition was written: <<unit, index>>.                  *)
(***************************************************************************)
FuncsOf(unit, names) ==
    [i \in 1..Len(names) |-> [name |-> names[i], def |-> <<unit, i>>]]

NamesOf(funcs) == [i \in 1..Len(funcs) |-> funcs[i].name]

\* The root program read by loadbril: 'imports' may be absent.
RootPrograms ==
    [hasImports : BOOLEAN, imports : SUBSET Modules,
     names : SeqsUpTo(Names, MaxFuncs)]

\* What "<m>.bril" holds: nothing (open() raises IOError), a text that
\* parse_bril raises on at line 134 or 135, or a text whose parse has these
\* imports and these functions.
Unread == [kind |-> "unread", imports |-> {}, names |-> <<>>]
Missing == [kind |-> "missing", imports |-> {}, names |-> <<>>]
Garbled == [kind |-> "garbled", imports |-> {}, names |-> <<>>]
Files ==
    [kind : {"file"}, imports : SUBSET Modules,
     names : SeqsUpTo(Names, MaxFuncs)]
FileContents == {Missing, Garbled} \cup Files

(***************************************************************************)
(* parse_bril's duplicate scan, lines 136-141.                             *)
(*   unique = set()                                                        *)
(*   dups = [f for f in function_names                                     *)
(*             if f in unique and not unique.add(f)]                       *)
(* `and` short-circuits: unique.add(f) runs only when f is in unique       *)
(* already.                                                                *)
(***************************************************************************)
RECURSIVE ScanDups(_, _)
ScanDups(function_names, unique) ==
    IF function_names = <<>> THEN <<>>
    ELSE LET f == Head(function_names) IN
         IF f \in unique
         THEN <<f>> \o ScanDups(Tail(function_names), unique \cup {f})
         ELSE ScanDups(Tail(function_names), unique)

parse_bril_dups(function_names) == ScanDups(function_names, {})

(***************************************************************************)
(* A Python dict keyed by function name, in insertion order: a sequence    *)
(* of functions with pairwise distinct names.  Assigning an existing key   *)
(* replaces the value in place; a new key goes to the end.                 *)
(***************************************************************************)
DictSet(d, f) ==
    IF \E i \in 1..Len(d) : d[i].name = f.name
    THEN [i \in 1..Len(d) |-> IF d[i].name = f.name THEN f ELSE d[i]]
    ELSE Append(d, f)

RECURSIVE DictUpdate(_, _)
DictUpdate(d, funcs) ==
    IF funcs = <<>> THEN d
    ELSE DictUpdate(DictSet(d, Head(funcs)), Tail(funcs))

\* {f['name']: f for f in funcs}
DictOf(funcs) == DictUpdate(<<>>, funcs)

Keys(d) == {d[i].name : i \in 1..Len(d)}

(***************************************************************************)
(* unroll_imports, lines 145-172.                                          *)
(***************************************************************************)
\* line 162: to_import.update(imports.difference(imported))
NoDifference(to_import_, imports, imported_) == to_import_ \cup imports
UpdateToImport(to_import_, imports, imported_) ==
    to_import_ \cup (imports \ imported_)

\* lines 163-164: the loaded module's names that are keys of the map.
RootOnlyDups(loaded_funcs, map, root_funcs) ==
    Range(NamesOf(loaded_funcs)) \cap Range(NamesOf(root_funcs))
CrossDups(loaded_funcs, map, root_funcs) ==
    Range(NamesOf(loaded_funcs)) \cap Keys(map)

\* line 168: all_functions_map.update({f['name']: f for f in ...})
MergeModule(map, loaded_funcs) == DictUpdate(map, DictOf(loaded_funcs))

NoResult == [kind |-> "none", hasImports |-> FALSE, imports |-> {},
             functions |-> <<>>]

\* line 147: the program as it came in.
Unchanged(p) ==
    [kind |-> "program", hasImports |-> p.hasImports,
     imports |-> p.imports, functions |-> FuncsOf("root", p.names)]

\* lines 169-172: dict(functions=list(all_functions_map.values()))
Merged(map) ==
    [kind |-> "program", hasImports |-> FALSE, imports |-> {},
     functions |-> map]

(***************************************************************************)
(* The text format: tokens.  A text is the sequence of its tokens          *)
(* (whitespace and comments are %ignore'd, lines 47-48).  The dynamic      *)
(* lexer matches a terminal wherever its pattern matches, so a keyword or  *)
(* a boolean literal is also a CNAME and an IDENT.                         *)
(***************************************************************************)
Keywords == {"import", "const", "def"}
BOOL == {"true", "false"}
Words == {"main", "a", "b", "c", "x", "int", "bool", "add", "print", "nop",
          "loop"}
\* common.CNAME: ("_"|LETTER) ("_"|LETTER|DIGIT)*
CNAME == Words \cup Names \cup Modules \cup Keywords \cup BOOL
\* line 39: IDENT also admits "%" and "."
IDENT == CNAME \cup {"%a"}
\* common.SIGNED_INT: ["+"|"-"] INT
SIGNED_INT == {"4", "-3", "+5", "5"}
Punct == {":", "=", ";", "{", "}", "(", ")"}
WS == {" ", "  ", "\n"}

\* The token at position i, "" past the end.
At(t, i) == IF i \in 1..Len(t) THEN t[i] ELSE ""

Drop(t, n) == SubSeq(t, n + 1, Len(t))

\* The number of consecutive IDENT tokens from position i on.
RECURSIVE IdentRun(_, _)
IdentRun(t, i) == IF At(t, i) \in IDENT THEN 1 + IdentRun(t, i + 1) ELSE 0

(***************************************************************************)
(* The four instruction rules, lines 28-31: the length of the prefix of t  *)
(* that the rule matches, 0 when it matches none.                          *)
(***************************************************************************)
\* const.4: IDENT ":" type "=" "const" lit ";"
ConstLen(t) ==
    IF /\ At(t, 1) \in IDENT /\ At(t, 2) = ":" /\ At(t, 3) \in CNAME
       /\ At(t, 4) = "=" /\ At(t, 5) = "const"
       /\ At(t, 6) \in SIGNED_INT \cup BOOL /\ At(t, 7) = ";"
    THEN 7 ELSE 0

\* vop.3: IDENT ":" type "=" CNAME IDENT* ";"
VopLen(t) ==
    IF /\ At(t, 1) \in IDENT /\ At(t, 2) = ":" /\ At(t, 3) \in CNAME
       /\ At(t, 4) = "=" /\ At(t, 5) \in CNAME
       /\ At(t, 6 + IdentRun(t, 6)) = ";"
    THEN 6 + IdentRun(t, 6) ELSE 0

\* eop.2: CNAME IDENT* ";"
EopLen(t) ==
    IF At(t, 1) \in CNAME /\ At(t, 2 + IdentRun(t, 2)) = ";"
    THEN 2 + IdentRun(t, 2) ELSE 0

\* label.1: IDENT ":"
LabelLen(t) == IF At(t, 1) \in IDENT /\ At(t, 2) = ":" THEN 2 ELSE 0

\* line 26 with the priorities of lines 28-31: the rule an instruction is
\* parsed by, the highest priority first.
VopFirst(t) ==
    IF VopLen(t) > 0 THEN "vop"
    ELSE IF ConstLen(t) > 0 THEN "const"
    ELSE IF EopLen(t) > 0 THEN "eop"
    ELSE IF LabelLen(t) > 0 THEN "label"
    ELSE IF At(t, 1) = "def" THEN "def_func"
    ELSE "none"
instr(t) ==
    IF ConstLen(t) > 0 THEN "const"
    ELSE IF VopLen(t) > 0 THEN "vop"
    ELSE IF EopLen(t) > 0 THEN "eop"
    ELSE IF LabelLen(t) > 0 THEN "label"
    ELSE IF At(t, 1) = "def" THEN "def_func"
    ELSE "none"

(***************************************************************************)
(* JSONTransformer, lines 52-129.  Python values are tagged by their       *)
(* type: [int |-> 4], [bool |-> TRUE].                                     *)
(***************************************************************************)
\* int(str(items[0]))
IntOf == [lex \in SIGNED_INT |->
            CASE lex = "4" -> 4 [] lex = "-3" -> 0 - 3 [] lex = "+5" -> 5
              [] lex = "5" -> 5]
int(tok) == [int |-> IntOf[tok]]

\* lines 122-126
bool(tok) == [bool |-> (tok = "true")]

\* lines 33-34
lit(tok) == IF tok \in SIGNED_INT THEN int(tok) ELSE bool(tok)

\* lines 84-93
const(t) ==
    [op |-> "const", dest |-> t[1], type |-> t[3], value |-> lit(t[6])]

\* lines 95-104; n is the length of the match
vop(t, n) ==
    [op |-> t[5], dest |-> t[1], type |-> t[3], args |-> SubSeq(t, 6, n - 1)]

\* lines 106-111
eop(t, n) == [op |-> t[1], args |-> SubSeq(t, 2, n - 1)]

\* lines 113-117
label(t) == [label |-> t[1]]

None == "<None>"

\* lines 65-79.  `items` is what follows the name and the arg trees: the
\* return type (a str) when the header has one, then the instructions.
\* items[0] of an empty list raises IndexError.
func(name, args, has_type, function_type, instrs) ==
    LET items == (IF has_type THEN <<function_type>> ELSE <<>>) \o instrs
        data == [name |-> name, instrs |-> instrs]
        data1 == IF Len(args) > 0 THEN data @@ [args |-> args] ELSE data
        data2_ == IF has_type THEN data1 @@ [type |-> function_type]
                  ELSE data1
    IN [crash |-> (items = <<>>), val |-> data2_]

\* lines 53-60
start(imports, functions) ==
    IF Len(imports) > 0
    THEN [functions |-> functions, imports |-> imports]
    ELSE [functions |-> functions]

(***************************************************************************)
(* The parser, lines 20-37, with the transformer applied bottom-up.  A     *)
(* result is [ok, crash, val, rest]: ok = the text conforms so far, crash  *)
(* = a transformer method raised, rest = the tokens left.                  *)
(***************************************************************************)
Fail == [ok |-> FALSE, crash |-> FALSE, val |-> <<>>, rest |-> <<>>]

\* arg: IDENT | "(" IDENT ":" type ")", line 37 and lines 70-72
RECURSIVE ParseArgs(_)
ParseArgs(t) ==
    IF At(t, 1) \in IDENT
    THEN LET r == ParseArgs(Drop(t, 1))
         IN [r EXCEPT !.val = <<[name |-> t[1], type |-> None]>> \o @]
    ELSE IF /\ At(t, 1) = "(" /\ At(t, 2) \in IDENT /\ At(t, 3) = ":"
            /\ At(t, 4) \in CNAME /\ At(t, 5) = ")"
    THEN LET r == ParseArgs(Drop(t, 5))
         IN [r EXCEPT !.val = <<[name |-> t[2], type |-> t[4]]>> \o @]
    ELSE [ok |-> TRUE, crash |-> FALSE, val |-> <<>>, rest |-> t]

RECURSIVE ParseInstrs(_)
RECURSIVE ParseFunc(_)

\* Prepend one parsed entry to the parse of what follows it.
Cons(entry, crashed, r) ==
    IF r.ok
    THEN [r EXCEPT !.val = <<entry>> \o @, !.crash = @ \/ crashed]
    ELSE r

\* instr* "}"
ParseInstrs(t) ==
    IF At(t, 1) = "}"
    THEN [ok |-> TRUE, crash |-> FALSE, val |-> <<>>, rest |-> Drop(t, 1)]
    ELSE LET alt == instr(t) IN
         CASE alt = "const" ->
                Cons(const(t), FALSE, ParseInstrs(Drop(t, ConstLen(t))))
           [] alt = "vop" ->
                Cons(vop(t, VopLen(t)), FALSE, ParseInstrs(Drop(t, VopLen(t))))
           [] alt = "eop" ->
                Cons(eop(t, EopLen(t)), FALSE, ParseInstrs(Drop(t, EopLen(t))))
           [] alt = "label" ->
                Cons(label(t), FALSE, ParseInstrs(Drop(t, LabelLen(t))))
           [] alt = "def_func" ->
                \* lines 24, 81-82: the nested function's own record
                LET f == ParseFunc(Drop(t, 1))
                IN IF f.ok THEN Cons(f.val, f.crash, ParseInstrs(f.rest))
                   ELSE Fail
           [] OTHER -> Fail

\* func, line 23
ParseFunc(t) ==
    IF At(t, 1) \notin CNAME THEN Fail
    ELSE LET a == ParseArgs(Drop(t, 1))
             u == a.rest
             has_type == At(u, 1) = ":" /\ At(u, 2) \in CNAME
                         /\ At(u, 3) = "{"
         IN IF ~has_type /\ At(u, 1) # "{" THEN Fail
            ELSE LET body == ParseInstrs(Drop(u, IF has_type THEN 3 ELSE 1))
                     f == func(t[1], a.val, has_type, At(u, 2), body.val)
                 IN IF ~body.ok THEN Fail
                    ELSE [ok |-> TRUE, crash |-> body.crash \/ f.crash,
                          val |-> f.val, rest |-> body.rest]

\* imp*, lines 22 and 62-63
RECURSIVE ParseImports(_)
ParseImports(t) ==
    IF At(t, 1) = "import" /\ At(t, 2) \in CNAME /\ At(t, 3) = ";"
    THEN LET r == ParseImports(Drop(t, 3))
         IN [r EXCEPT !.val = <<t[2]>> \o @]
    ELSE [ok |-> TRUE, crash |-> FALSE, val |-> <<>>, rest |-> t]

\* func* to the end of the text
RECURSIVE ParseFuncs(_)
ParseFuncs(t) ==
    IF t = <<>>
    THEN [ok |-> TRUE, crash |-> FALSE, val |-> <<>>, rest |-> <<>>]
    ELSE LET f == ParseFunc(t)
         IN IF f.ok THEN Cons(f.val, f.crash, ParseFuncs(f.rest)) ELSE Fail

NoData == [functions |-> <<>>]
NoParse == [status |-> "none", data |-> NoData, dups |-> <<>>]

\* parse_bril, lines 132-142: "syntax" is lark's exception at line 134,
\* "IndexError" the transformer's at line 135, "dup" the RuntimeError of
\* line 140, "ok" the return of line 142.
parse_bril(txt_) ==
    LET i == ParseImports(txt_)
        f == ParseFuncs(i.rest)
        data_ == start(i.val, f.val)
        dups_ == parse_bril_dups(NamesOf(f.val))
    IN IF ~f.ok THEN [status |-> "syntax", data |-> NoData, dups |-> <<>>]
       ELSE IF f.crash
       THEN [status |-> "IndexError", data |-> NoData, dups |-> <<>>]
       ELSE IF Len(dups_) > 0
       THEN [status |-> "dup", data |-> NoData, dups |-> dups_]
       ELSE [status |-> "ok", data |-> data_, dups |-> <<>>]

(***************************************************************************)
(* The pretty-printer, lines 177-218.  A printed line is the sequence of   *)
(* its pieces: tokens and runs of spaces.                                  *)
(***************************************************************************)
\* str(value).lower(), line 182
DecimalOf(n) ==
    CASE n = 4 -> "4" [] n = 5 -> "5" [] n = 0 - 3 -> "-3" [] OTHER -> "?"
ValueString(v) ==
    IF "bool" \in DOMAIN v THEN (IF v.bool THEN "true" ELSE "false")
    ELSE DecimalOf(v.int)

\* ' '.join(args)
RECURSIVE Join(_)
Join(args) ==
    IF args = <<>> THEN <<>>
    ELSE IF Len(args) = 1 THEN args
    ELSE <<Head(args), " ">> \o Join(Tail(args))

\* The keys an entry must have for instr_to_string not to raise KeyError.
HasKeys(e, ks) == ks \subseteq DOMAIN e
Printable(e) ==
    /\ "op" \in DOMAIN e
    /\ IF e.op = "const" THEN HasKeys(e, {"dest", "type", "value"})
       ELSE IF "dest" \in DOMAIN e THEN HasKeys(e, {"type", "args"})
       ELSE HasKeys(e, {"args"})

\* lines 177-195, for a Printable instruction
instr_to_string(e) ==
    IF e.op = "const"
    THEN <<e.dest, ":", " ", e.type, " ", "=", " ", "const", " ",
           ValueString(e.value)>>
    ELSE IF "dest" \in DOMAIN e
    THEN <<e.dest, ":", " ", e.type, " ", "=", " ", e.op, " ">>
         \o Join(e.args)
    ELSE <<e.op, " ">> \o Join(e.args)

\* lines 198-199
print_instr(e) == <<"  ">> \o instr_to_string(e) \o <<";">>

\* lines 202-203
print_label_indented(e) == <<"  ", e.label, ":">>
print_label(e) == <<e.label, ":">>

NoPrint == [lines |-> <<>>, error |-> ""]

\* The body lines of lines 208-212, up to the first entry that raises.
RECURSIVE PrintEntries(_)
PrintEntries(instrs) ==
    IF instrs = <<>> THEN NoPrint
    ELSE LET e == Head(instrs) IN
         IF "label" \in DOMAIN e
         THEN LET r == PrintEntries(Tail(instrs))
              IN [r EXCEPT !.lines = <<print_label(e)>> \o @]
         ELSE IF Printable(e)
         THEN LET r == PrintEntries(Tail(instrs))
              IN [r EXCEPT !.lines = <<print_instr(e)>> \o @]
         ELSE [lines |-> <<>>, error |-> "KeyError"]

\* lines 206-213
print_func(f) ==
    LET body == PrintEntries(f.instrs)
        head == <<<<f.name, " ", "{">>>> \o body.lines
    IN IF body.error # "" THEN [lines |-> head, error |-> body.error]
       ELSE [lines |-> head \o <<<<"}">>>>, error |-> ""]

\* lines 216-218
RECURSIVE PrintFuncs(_)
PrintFuncs(functions) ==
    IF functions = <<>> THEN NoPrint
    ELSE LET p == print_func(Head(functions)) IN
         IF p.error # "" THEN p
         ELSE LET r == PrintFuncs(Tail(functions))
              IN [r EXCEPT !.lines = p.lines \o @]

print_prog(p) == PrintFuncs(p.functions)

(***************************************************************************)
(* Reading printed text back: the lines joined by newlines, whitespace     *)
(* dropped, and two word pieces with nothing between them read as one      *)
(* token.                                                                  *)
(***************************************************************************)
RECURSIVE Flatten(_)
Flatten(lines) ==
    IF lines = <<>> THEN <<>>
    ELSE Head(lines) \o <<"\n">> \o Flatten(Tail(lines))

RECURSIVE Lex(_)
Lex(pieces) ==
    IF pieces = <<>> THEN <<>>
    ELSE IF Head(pieces) \in WS THEN Lex(Tail(pieces))
    ELSE IF /\ Len(pieces) > 1
            /\ Head(pieces) \notin Punct
            /\ pieces[2] \notin Punct \cup WS
    THEN Lex(<<pieces[1] \o pieces[2]>> \o Drop(pieces, 2))
    ELSE <<Head(pieces)>> \o Lex(Tail(pieces))

(***************************************************************************)
(* Input texts.  A text is written from a source description, so that the  *)
(* properties can name the statements it was written from: a one-function  *)
(* text with up to MaxInstrs statements, or a text of up to MaxFuncs       *)
(* functions with every kind of header and short bodies.                   *)
(***************************************************************************)
ConstIntStmt == <<"a", ":", "int", "=", "const", "4", ";">>
ConstBoolStmt == <<"x", ":", "bool", "=", "const", "true", ";">>
ConstSignedStmt == <<"c", ":", "int", "=", "const", "+5", ";">>
AddStmt == <<"b", ":", "int", "=", "add", "a", "a", ";">>
ConstNameStmt == <<"x", ":", "int", "=", "const", "a", ";">>
PrintStmt == <<"print", "b", ";">>
NopStmt == <<"nop", ";">>
LabelStmt == <<"loop", ":">>
DefStmt == <<"def", "g", "{", "nop", ";", "}">>

Stmts == {ConstIntStmt, ConstBoolStmt, AddStmt, ConstNameStmt, PrintStmt,
          LabelStmt, DefStmt}

HeaderKinds == {"plain", "ret", "arg", "targ_ret"}

Header(name, kind) ==
    CASE kind = "plain" -> <<name, "{">>
      [] kind = "ret" -> <<name, ":", "int", "{">>
      [] kind = "arg" -> <<name, "%a", "{">>
      [] kind = "targ_ret" ->
            <<name, "(", "a", ":", "int", ")", ":", "bool", "{">>

RECURSIVE Concat(_)
Concat(ss) == IF ss = <<>> THEN <<>> ELSE Head(ss) \o Concat(Tail(ss))

WriteFunc(f) == Header(f.name, f.kind) \o Concat(f.stmts) \o <<"}">>

Write(s) ==
    Concat([i \in 1..Len(s.imports) |-> <<"import", s.imports[i], ";">>])
    \o Concat([i \in 1..Len(s.funcs) |-> WriteFunc(s.funcs[i])])

RichSources ==
    {[imports |-> <<>>,
      funcs |-> <<[name |-> "main", kind |-> "plain", stmts |-> ss]>>] :
        ss \in SeqsUpTo(Stmts, MaxInstrs)}

SmallFuncs ==
    [name : Names, kind : HeaderKinds,
     stmts : {<<>>, <<NopStmt, ConstSignedStmt>>}]

ManySources ==
    [imports : {<<>>, <<"B">>}, funcs : SeqsUpTo(SmallFuncs, MaxFuncs)]

Sources == RichSources \cup ManySources

NoSource == [imports |-> <<>>, funcs |-> <<>>]

NoFirst == [pc |-> "none", order |-> <<>>, result |-> NoResult, dups |-> {}]

VARIABLES
    prog,               \* the root program given to unroll_imports
    store,              \* module name -> what its file holds
    to_import,          \* the pending set
    imported,           \* the seen set
    all_functions_map,  \* the accumulated function map
    order,              \* the module names popped so far, in order
    dups,               \* the names of the duplicate-function error
    result,             \* what unroll_imports returned
    pc,                 \* start | loop | returned | dup | exit | raised | idle
    run,                \* 1 or 2: the second run repeats the first's inputs
    first,              \* how the first run ended
    src,                \* what the input text was written from
    txt,                \* the input text of bril2json
    data,               \* what parse_bril made of txt
    printed,            \* what print_prog printed for data
    data2,              \* what parse_bril made of the printed text
    phase               \* text | json | printed | reparsed | idle

resolver_vars == <<prog, store, to_import, imported, all_functions_map, order,
                   dups, result, pc, run, first>>

text_vars == <<src, txt, data, printed, data2, phase>>

vars == <<resolver_vars, text_vars>>

\* How a run ends: the return of line 147 or 169, the RuntimeError of line
\* 140 or 166, sys.exit(1) at line 160, an exception of the parser or the
\* transformer that line 156 lets through.
Final == {"returned", "dup", "exit", "raised"}

\* No text is being converted.
TextIdle ==
    /\ src = NoSource
    /\ txt = <<>>
    /\ data = NoParse
    /\ printed = NoPrint
    /\ data2 = NoParse
    /\ phase = "idle"

Init ==
    /\ TextIdle
    /\ prog \in RootPrograms
    /\ (~prog.hasImports => prog.imports = {})
    /\ store = [m \in Modules |-> Unread]
    /\ to_import = {}
    /\ imported = {}
    /\ all_functions_map = <<>>
    /\ order = <<>>
    /\ dups = {}
    /\ result = NoResult
    /\ pc = "start"
    /\ run = 1
    /\ first = NoFirst

\* lines 146-150.
Begin ==
    /\ pc = "start"
    /\ IF ~prog.hasImports
       THEN /\ pc' = "returned"
            /\ result' = Unchanged(prog)
            /\ UNCHANGED <<to_import, all_functions_map>>
       ELSE /\ pc' = "loop"
            /\ to_import' = prog.imports
            /\ all_functions_map' = DictOf(FuncsOf("root", prog.names))
            /\ UNCHANGED result
    /\ UNCHANGED <<prog, store, imported, order, dups, run, first, text_vars>>

\* lines 151-168: one iteration of the while loop, for the name that
\* set.pop() removes (any member of the set).  A file is read as it is the
\* first time and holds the same thing whenever it is read again.
Iterate ==
    /\ pc = "loop"
    /\ to_import # {}
    /\ \E module_name \in to_import :
       \E content \in FileContents :
          /\ store[module_name].kind # "unread" => content = store[module_name]
          /\ store' = [store EXCEPT ![module_name] = content]
          /\ imported' = imported \cup {module_name}
          /\ order' = Append(order, module_name)
          /\ IF content.kind = "missing"
             THEN \* lines 157-160: IOError, sys.exit(1)
                  /\ pc' = "exit"
                  /\ to_import' = to_import \ {module_name}
                  /\ UNCHANGED <<all_functions_map, dups>>
             ELSE IF content.kind = "garbled"
             THEN \* line 156: parse_bril raises, nothing catches it
                  /\ pc' = "raised"
                  /\ to_import' = to_import \ {module_name}
                  /\ UNCHANGED <<all_functions_map, dups>>
             ELSE IF parse_bril_dups(content.names) # <<>>
             THEN \* line 140, raised inside line 156
                  /\ pc' = "dup"
                  /\ dups' = Range(parse_bril_dups(content.names))
                  /\ to_import' = to_import \ {module_name}
                  /\ UNCHANGED all_functions_map
             ELSE LET loaded == FuncsOf(module_name, content.names)
                      d == CrossDups(loaded, all_functions_map,
                                     FuncsOf("root", prog.names))
                  IN /\ to_import' =
                          UpdateToImport(to_import \ {module_name},
                                         content.imports, imported')
                     /\ IF d # {}
                        THEN /\ pc' = "dup"
                             /\ dups' = d
                             /\ UNCHANGED all_functions_map
                        ELSE /\ all_functions_map' =
                                  MergeModule(all_functions_map, loaded)
                             /\ UNCHANGED <<pc, dups>>
    /\ UNCHANGED <<prog, result, run, first, text_vars>>

\* lines 151, 169-172: the pending set is empty.
Finish ==
    /\ pc = "loop"
    /\ to_import = {}
    /\ pc' = "returned"
    /\ result' = Merged(all_functions_map)
    /\ UNCHANGED <<prog, store, to_import, imported, all_functions_map, order,
                   dups, run, first, text_vars>>

\* loadbril is run again on the same program and the same files.
Rerun ==
    /\ pc \in Final
    /\ run = 1
    /\ run' = 2
    /\ first' = [pc |-> pc, order |-> order, result |-> result, dups |-> dups]
    /\ pc' = "start"
    /\ to_import' = {}
    /\ imported' = {}
    /\ all_functions_map' = <<>>
    /\ order' = <<>>
    /\ dups' = {}
    /\ result' = NoResult
    /\ UNCHANGED <<prog, store, text_vars>>

Step == Begin \/ Iterate \/ Finish

Next == Begin \/ Iterate \/ Finish \/ Rerun

Spec == Init /\ [][Next]_vars

\* The interpreter keeps executing unroll_imports until it returns or raises.
FairSpec == Spec /\ WF_vars(Step)

(***************************************************************************)
(* The converters: bril2json on a text, bril2txt on its output, bril2json  *)
(* on the printed text.                                                    *)
(***************************************************************************)
\* unroll_imports is not running.
ResolverIdle ==
    /\ prog = [hasImports |-> FALSE, imports |-> {}, names |-> <<>>]
    /\ store = [m \in Modules |-> Unread]
    /\ to_import = {}
    /\ imported = {}
    /\ all_functions_map = <<>>
    /\ order = <<>>
    /\ dups = {}
    /\ result = NoResult
    /\ pc = "idle"
    /\ run = 1
    /\ first = NoFirst

ParseInit ==
    /\ ResolverIdle
    /\ src \in Sources
    /\ txt = Write(src)
    /\ data = NoParse
    /\ printed = NoPrint
    /\ data2 = NoParse
    /\ phase = "text"

\* lines 223-224
Bril2Json ==
    /\ phase = "text"
    /\ data' = parse_bril(txt)
    /\ phase' = "json"
    /\ UNCHANGED <<src, txt, printed, data2, resolver_vars>>

\* lines 227-228, on the program bril2json wrote
Bril2Txt ==
    /\ phase = "json"
    /\ data.status = "ok"
    /\ printed' = print_prog(data.data)
    /\ phase' = "printed"
    /\ UNCHANGED <<src, txt, data, data2, resolver_vars>>

\* lines 223-224, on the text bril2txt wrote
Reparse ==
    /\ phase = "printed"
    /\ printed.error = ""
    /\ data2' = parse_bril(Lex(Flatten(printed.lines)))
    /\ phase' = "reparsed"
    /\ UNCHANGED <<src, txt, data, printed, resolver_vars>>

ParseNext == Bril2Json \/ Bril2Txt \/ Reparse

ParseSpec == ParseInit /\ [][ParseNext]_vars

(***************************************************************************)
(* Definitions the properties below are stated with.                       *)
(***************************************************************************)
Distinct(s) == \A i, j \in 1..Len(s) : s[i] = s[j] => i = j

RootFuncs == FuncsOf("root", prog.names)

\* The functions module m's file defines, as loaded.
ModuleFuncs(m) == FuncsOf(m, store[m].names)

\* The module names reachable from the root's imports through the imports
\* of the files read so far (a file never read adds no edge, so this is a
\* subset of what is reachable in the whole store).
RECURSIVE ReachFrom(_, _)
ReachFrom(S, n) ==
    IF n = 0 THEN S
    ELSE ReachFrom(S \cup UNION {store[m].imports : m \in S}, n - 1)

Reachable == ReachFrom(prog.imports, Cardinality(Modules))

\* The functions of the modules of `ord`, module by module.
RECURSIVE ConcatModules(_)
ConcatModules(ord) ==
    IF ord = <<>> THEN <<>>
    ELSE ModuleFuncs(Head(ord)) \o ConcatModules(Tail(ord))

\* The units a run has read: the root and the modules it loaded.
UnitNames == {prog.names} \cup {store[m].names : m \in Range(order)}

\* No name is defined by two different units.
CrossUnitDisjoint ==
    /\ \A m \in Range(order) :
          Range(store[m].names) \cap Range(prog.names) = {}
    /\ \A m, n \in Range(order) :
          m # n => Range(store[m].names) \cap Range(store[n].names) = {}

(***************************************************************************)
(* C2: when the module an iteration loads defines a name that is a key of  *)
(* the accumulated map, the iteration ends in a duplicate-function error   *)
(* over exactly the intersection, leaves the map as it was and returns no  *)
(* Program.                                                                *)
(***************************************************************************)
C2_CrossModuleCollision ==
    [][ (pc = "loop" /\ Len(order') = Len(order) + 1) =>
        LET m == order'[Len(order')]
            inter == Range(store'[m].names) \cap Keys(all_functions_map)
        IN (store'[m].kind = "file" /\ inter # {}) =>
              /\ pc' = "dup"
              /\ dups' = inter
              /\ all_functions_map' = all_functions_map
              /\ result' = NoResult ]_vars

\* A module collided with a module merged before it, not with the root.
C2_Witness ==
    /\ pc = "dup"
    /\ Len(order) = 2
    /\ dups # {}
    /\ dups \cap Range(prog.names) = {}
    /\ dups \subseteq Range(store[order[1]].names)

(***************************************************************************)
(* C3: a run over a non-empty import set that returns, no name being       *)
(* defined by two units, returns a Program without imports whose functions *)
(* are the root's followed by those of every reachable module, in the      *)
(* order the modules were processed.                                       *)
(***************************************************************************)
C3_MergeSuccess ==
    (pc = "returned" /\ prog.hasImports /\ prog.imports # {}
       /\ CrossUnitDisjoint) =>
        /\ result.kind = "program"
        /\ ~result.hasImports
        /\ Range(order) = Reachable
        /\ result.functions = RootFuncs \o ConcatModules(order)

(***************************************************************************)
(* C4: a returned Program has pairwise distinct function names, and no     *)
(* run returns a Program when the root or a loaded module defined a name   *)
(* twice.                                                                  *)
(***************************************************************************)
C4_UniqueNames ==
    pc = "returned" =>
        /\ Distinct(NamesOf(result.functions))
        /\ \A ns \in UnitNames : Distinct(ns)

(***************************************************************************)
(* C8: a name in the seen set is never pending again, and no module name   *)
(* is popped (loaded, merged) twice in a run.                              *)
(***************************************************************************)
C8_LoadAtMostOnce ==
    /\ to_import \cap imported = {}
    /\ Distinct(order)
    /\ Range(order) = imported

\* A run returned after loading a module that imports itself and a module
\* that imports it back (a cycle through both modules).
C8_Witness ==
    /\ pc = "returned"
    /\ Len(order) = 2
    /\ \E m \in Modules : m \in store[m].imports
    /\ \A m \in Modules : store[m].imports = Modules

(***************************************************************************)
(* C9 as stated: two runs on the same program and files agree on whether   *)
(* they end in a duplicate-function error, and return the same set of      *)
(* functions when both return.                                             *)
(***************************************************************************)
C9_SameDupOutcome ==
    (run = 2 /\ pc \in Final) =>
        /\ (first.pc = "dup") <=> (pc = "dup")
        /\ (first.pc = "returned" /\ pc = "returned") =>
              Range(first.result.functions) = Range(result.functions)

(***************************************************************************)
(* C9 amended: two runs on the same program and files agree on whether     *)
(* they return a Program (the failing runs may fail differently: a         *)
(* duplicate-function error over other names, or a load failure), and      *)
(* return the same set of functions when both return.                      *)
(***************************************************************************)
C9_SameOutcome ==
    (run = 2 /\ pc \in Final) =>
        /\ (first.pc = "returned") <=> (pc = "returned")
        /\ (first.pc = "returned" /\ pc = "returned") =>
              Range(first.result.functions) = Range(result.functions)

\* Both runs returned, having popped the modules in different orders.
C9_Witness ==
    /\ run = 2
    /\ pc = "returned"
    /\ first.pc = "returned"
    /\ Len(order) = 2
    /\ order # first.order
    /\ Len(result.functions) >= 2

(***************************************************************************)
(* C10: every run stops (it returns, or raises the duplicate-function      *)
(* error, or exits on a load failure), and never loads more modules than   *)
(* there are names reachable from the root's imports.                      *)
(***************************************************************************)
C10_Termination ==
    /\ (pc \in {"start", "loop"}) ~> (pc \in Final)
    /\ [](Len(order) <= Cardinality(Reachable))

\* A run over a cyclic import graph returned.
C10_Witness ==
    /\ pc = "returned"
    /\ Len(order) = 2
    /\ "B" \in store["A"].imports
    /\ "A" \in store["B"].imports

(***************************************************************************)
(* Definitions the properties of the converters are stated with.           *)
(***************************************************************************)
\* The names of the top-level functions the text was written with.
SourceNames == [i \in 1..Len(src.funcs) |-> src.funcs[i].name]

\* The names that occur more than once in a list.
Repeated(ns) == {ns[i] : i \in {k \in 1..Len(ns) :
                                  \E j \in 1..Len(ns) : j # k /\ ns[j] = ns[k]}}

\* The rule that matches the whole statement s, the highest priority first.
FirstAlternative(s) ==
    IF ConstLen(s) = Len(s) THEN "const"
    ELSE IF VopLen(s) = Len(s) THEN "vop"
    ELSE IF EopLen(s) = Len(s) THEN "eop"
    ELSE IF LabelLen(s) = Len(s) THEN "label"
    ELSE "def_func"

\* How many of the four instruction rules match the whole statement s.
Alternatives(s) ==
    {r \in {"const", "vop", "eop", "label"} :
        CASE r = "const" -> ConstLen(s) = Len(s)
          [] r = "vop" -> VopLen(s) = Len(s)
          [] r = "eop" -> EopLen(s) = Len(s)
          [] r = "label" -> LabelLen(s) = Len(s)}

\* What an entry of instrs is.
KindOf(e) ==
    IF "label" \in DOMAIN e THEN "label"
    ELSE IF "op" \notin DOMAIN e THEN "def_func"
    ELSE IF "value" \in DOMAIN e THEN "const"
    ELSE IF "dest" \in DOMAIN e THEN "vop"
    ELSE "eop"

\* Every entry of every function is a Const, a ValueOp, an EffectOp or a
\* Label, and only a Const has the op `const`.
FourKinds(p) ==
    \A f \in Range(p.functions) : \A e \in Range(f.instrs) :
        /\ KindOf(e) # "def_func"
        /\ KindOf(e) \in {"vop", "eop"} => e.op # "const"

Example == <<ConstIntStmt, AddStmt, PrintStmt, LabelStmt>>

ExampleInstrs ==
    << [op |-> "const", dest |-> "a", type |-> "int", value |-> [int |-> 4]],
       [op |-> "add", dest |-> "b", type |-> "int", args |-> <<"a", "a">>],
       [op |-> "print", args |-> <<"b">>],
       [label |-> "loop"] >>

\* The number of lines the claim gives function f, and the lines before
\* the k-th function's.
LineCount(f) == Len(f.instrs) + 2

RECURSIVE Offset(_, _)
Offset(fs, k) ==
    IF k <= 1 THEN 0 ELSE Offset(fs, k - 1) + LineCount(fs[k - 1])

Rendered(e) == "label" \in DOMAIN e \/ Printable(e)

\* The entries before the first one the printer raises on (all of them when
\* it raises on none), counted with the header lines before them.
RECURSIVE LinesUntilError(_)
LinesUntilError(fs) ==
    IF fs = <<>> THEN 0
    ELSE LET f == Head(fs)
             bad == {i \in 1..Len(f.instrs) : ~Rendered(f.instrs[i])}
         IN IF bad = {} THEN LineCount(f) + LinesUntilError(Tail(fs))
            ELSE CHOOSE i \in bad : \A j \in bad : i <= j

AllRendered(fs) ==
    \A k \in 1..Len(fs) : \A i \in 1..Len(fs[k].instrs) :
        Rendered(fs[k].instrs[i])

\* Line j of function f's block, as the layout has it; labels indented by
\* two spaces or not at all.
LineOk(f, j, line, label_indented) ==
    IF j = 1 THEN line = <<f.name, " ", "{">>
    ELSE IF j = LineCount(f) THEN line = <<"}">>
    ELSE LET e == f.instrs[j - 1] IN
         IF "label" \in DOMAIN e
         THEN IF label_indented
              THEN line = <<"  ", e.label, ":">>
              ELSE line = <<e.label, ":">>
         ELSE /\ Len(line) >= 3
              /\ line[1] = "  "
              /\ line[2] = (IF "dest" \in DOMAIN e THEN e.dest ELSE e.op)
              /\ line[Len(line)] = ";"

\* Every line printed is the line the layout has at its place.
LayoutOk(fs, lines, label_indented) ==
    \A k \in 1..Len(fs) : \A j \in 1..LineCount(fs[k]) :
        Offset(fs, k) + j <= Len(lines) =>
            LineOk(fs[k], j, lines[Offset(fs, k) + j], label_indented)

(***************************************************************************)
(* C1: a text that parses and transforms, and whose function list repeats  *)
(* a name, makes parse_bril fail with the duplicate-function error that    *)
(* lists each repeated name once and return no Program; one with pairwise  *)
(* distinct function names makes it return the Program.                    *)
(***************************************************************************)
C1_DuplicateDetection ==
    (phase = "json" /\ data.status \notin {"syntax", "IndexError"}) =>
        IF Repeated(SourceNames) # {}
        THEN /\ data.status = "dup"
             /\ Range(data.dups) = Repeated(SourceNames)
             /\ Distinct(data.dups)
             /\ data.data = NoData
        ELSE /\ data.status = "ok"
             /\ NamesOf(data.data.functions) = SourceNames

(***************************************************************************)
(* C5: a Program the transformer produced, its entries being Consts,       *)
(* ValueOps, EffectOps and Labels, prints, and the printed text parses     *)
(* again to a Program with the same function names in the same order and,  *)
(* function by function, the same instrs.                                  *)
(***************************************************************************)
C5_RoundTrip ==
    FourKinds(data.data) =>
        /\ phase = "printed" => printed.error = ""
        /\ phase = "reparsed" =>
              /\ data2.status = "ok"
              /\ NamesOf(data2.data.functions) = NamesOf(data.data.functions)
              /\ \A k \in 1..Len(data.data.functions) :
                    data2.data.functions[k].instrs
                        = data.data.functions[k].instrs

(***************************************************************************)
(* C6 as stated: every function is printed as its header, one line per     *)
(* entry of instrs in order, each of them (label lines too) starting with  *)
(* exactly two spaces, and the closing brace.                              *)
(***************************************************************************)
C6_LayoutLabelsIndented ==
    phase = "printed" =>
        /\ printed.error = ""
        /\ Len(printed.lines) =
              Offset(data.data.functions, Len(data.data.functions) + 1)
        /\ LayoutOk(data.data.functions, printed.lines, TRUE)

(***************************************************************************)
(* C6 amended: every function is printed as the unindented header          *)
(* `name {`, one line per entry of instrs in order, an instruction line    *)
(* starting with exactly two spaces and ending in `;`, a label line being  *)
(* `name:` with no indentation and no semicolon, and an unindented `}`;    *)
(* on the first entry that is no label and lacks a key its op needs (op    *)
(* `const` without a value, or no op) the printer raises KeyError, having  *)
(* printed the lines before it.                                            *)
(***************************************************************************)
C6_Layout ==
    phase = "printed" =>
        /\ (printed.error = "") <=> AllRendered(data.data.functions)
        /\ Len(printed.lines) = LinesUntilError(data.data.functions)
        /\ LayoutOk(data.data.functions, printed.lines, FALSE)

\* A function with a label line and an instruction line was printed whole.
C6_Witness ==
    /\ phase = "printed"
    /\ printed.error = ""
    /\ \E f \in Range(data.data.functions) :
          /\ \E e \in Range(f.instrs) : "label" \in DOMAIN e
          /\ \E e \in Range(f.instrs) : "op" \in DOMAIN e

(***************************************************************************)
(* C7: every statement of a function body is parsed by the first rule, in  *)
(* the order const, value op, effect op, label, that matches it;           *)
(* `x: bool = const true;` becomes the Const with the boolean true, never  *)
(* the ValueOp const [true]; the four example statements become exactly    *)
(* the four example entries.                                               *)
(***************************************************************************)
C7_Priority ==
    (phase = "json" /\ data.status = "ok" /\ src \in RichSources) =>
        LET ss == src.funcs[1].stmts
            is == data.data.functions[1].instrs
        IN /\ Len(is) = Len(ss)
           /\ \A i \in 1..Len(ss) :
                 /\ KindOf(is[i]) = FirstAlternative(ss[i])
                 /\ ss[i] = ConstBoolStmt =>
                       is[i] = [op |-> "const", dest |-> "x", type |-> "bool",
                                value |-> [bool |-> TRUE]]
           /\ ss = Example => is = ExampleInstrs

\* A body with the statement that two rules match (`x: bool = const true;`)
\* and one statement of each other kind was parsed.
C7_Witness ==
    /\ phase = "json"
    /\ data.status = "ok"
    /\ src \in RichSources
    /\ src.funcs[1].stmts = <<ConstBoolStmt, AddStmt, PrintStmt, LabelStmt>>
    /\ Alternatives(ConstBoolStmt) = {"const", "vop"}
    /\ KindOf(data.data.functions[1].instrs[1]) = "const"

====
